---- MODULE Spec2Model ----
(***************************************************************************)
(* Model of the SigV4 request signer of kla (src/src/sigv4.rs).            *)
(*                                                                         *)
(* SigV4Builder is built with header/date/region/service/credentials and   *)
(* consumed by sign(req).  sign prepares the request (host, x-amz-date),   *)
(* hands method, url, the sign-set headers and the body to the aws-sigv4   *)
(* crate, and inserts the headers of the returned signing instructions.    *)
(* Strings are TLA+ strings; the hash primitives are free constructors     *)
(* (injective terms), time instants are seconds relative to                *)
(* 2015-08-30T00:00:00Z.                                                   *)
(***************************************************************************)
EXTENDS Integers, Sequences, FiniteSets, TLC

VARIABLES
    builder,    \* the SigV4Builder under construction / being signed with
    req,        \* the reqwest::Request owned by the running sign call
    entry,      \* the request as it was handed to sign
    pc,         \* position: "build", "signing", "apply", "done", "err"
    now,        \* last value returned by SystemTime::now()
    params,     \* v4::SigningParams built by sign (identity, region, name, time)
    instr,      \* SigningInstructions returned by aws_sigv4::http_request::sign
    signing,    \* what the signing call canonicalised (time, headers, host, ...)
    result,     \* Result of the call: [kind, msg]
    round,      \* number of sign calls started on this builder/request pair
    first,      \* Authorization value returned by the first call
    caller,     \* who runs sign: "" (nobody yet), "sign" or "sign_request"
    cli,        \* one run of the command line: arguments, environment, request
    par         \* sign calls running in parallel: the clock, inputs, each call's locals

signVars == <<builder, req, entry, pc, now, params, instr, signing, result, round, first,
              caller>>

vars == <<builder, req, entry, pc, now, params, instr, signing, result, round, first,
          caller, cli, par>>

----------------------------------------------------------------------------
(* Bounds *)

\* largest instant the wall clock reaches
MaxNow == 1

\* header() calls on one builder where the order of the calls is compared
MaxOrder == 2

\* sign calls applied in sequence to one request
MaxRounds == 3
\* largest number of header() calls on one builder
MaxPush == 1

----------------------------------------------------------------------------
(* Option values *)

None == [some |-> FALSE]
Some(x) == [some |-> TRUE, val |-> x]

----------------------------------------------------------------------------
(* Strings *)

RECURSIVE Join(_, _)
Join(s, sep) ==
    IF s = <<>> THEN ""
    ELSE IF Len(s) = 1 THEN s[1]
    ELSE s[1] \o sep \o Join(Tail(s), sep)

RECURSIVE SelectInOrder(_, _)
\* the elements of the ordered universe `order` that are in set S, in order
SelectInOrder(order, S) ==
    IF order = <<>> THEN <<>>
    ELSE IF Head(order) \in S
         THEN <<Head(order)>> \o SelectInOrder(Tail(order), S)
         ELSE SelectInOrder(Tail(order), S)

Range(s) == {s[i] : i \in DOMAIN s}

----------------------------------------------------------------------------
(* Time: chrono's format of sign, and the date-time format of aws-sigv4 *)

TwoDigits(n) == IF n < 10 THEN "0" \o ToString(n) ELSE ToString(n)

\* %Y%m%d of an instant (days of August 2015 around the 30th)
DateStamp(t) == "201508" \o TwoDigits(30 + (t \div 86400))

\* %H%M%S of an instant
TimeOfDay(t) ==
    LET s == t % 86400
    IN  TwoDigits(s \div 3600) \o TwoDigits((s % 3600) \div 60) \o TwoDigits(s % 60)

\* date.format("%Y%m%d%H%M%SZ")
ChronoFormat(t) == DateStamp(t) \o TimeOfDay(t) \o "Z"

\* aws-sigv4 format_date_time: YYYYMMDD'T'HHMMSS'Z'
FormatDateTime(t) == DateStamp(t) \o "T" \o TimeOfDay(t) \o "Z"

----------------------------------------------------------------------------
(* Header maps: http::HeaderMap as a function from name to its values *)

HOST == "host"
X_AMZ_DATE == "x-amz-date"
X_AMZ_SECURITY_TOKEN == "x-amz-security-token"
X_AMZ_CONTENT_SHA_256 == "x-amz-content-sha256"
AUTHORIZATION == "authorization"

\* the header names of the model, in byte order
HeaderOrder ==
    <<"authorization", "content-type", "host", "x-amz-content-sha256",
      "x-amz-date", "x-amz-security-token", "x-api-key">>

HeaderNames == Range(HeaderOrder)

EmptyHeaders == [n \in HeaderNames |-> <<>>]

ContainsKey(h, n) == n \in HeaderNames /\ h[n] # <<>>

\* HeaderMap::get: the first value of the name
Get(h, n) == Head(h[n])

\* HeaderMap::insert: replaces every value of the name
Insert(h, n, v) == [h EXCEPT ![n] = <<v>>]

\* HeaderMap::append: adds a value after the existing ones
AppendValue(h, n, v) == [h EXCEPT ![n] = Append(@, v)]

\* header values that are not visible ASCII (HeaderValue::to_str fails)
NonTextValues == {"\\xff"}

\* strings HeaderValue::from_str rejects (control characters)
InvalidHeaderStrings == {"tok\\n"}

----------------------------------------------------------------------------
(* Requests handed to sign *)

\* a URL as the url crate holds it; cannot_be_a_base: no "//" follows the scheme
Url1 == [scheme |-> "https", host |-> "api.example.com", port |-> None,
         path |-> "/items", query |-> <<>>, cannot_be_a_base |-> FALSE]
Url2 == [scheme |-> "https", host |-> "api.example.com", port |-> Some("8443"),
         path |-> "/items", query |-> <<"b=2", "a=1">>, cannot_be_a_base |-> FALSE]

\* file:///tmp/items, a URL with an empty authority: Url::host() is None,
\* written host ""
Url3 == [scheme |-> "file", host |-> "", port |-> None,
         path |-> "/tmp/items", query |-> <<>>, cannot_be_a_base |-> FALSE]
\* Url2 with its query parameters in sorted order
Url4 == [scheme |-> "https", host |-> "api.example.com", port |-> Some("8443"),
         path |-> "/items", query |-> <<"a=1", "b=2">>, cannot_be_a_base |-> FALSE]
\* about:blank, a URL without authority: Url::host() is None
Url5 == [scheme |-> "about", host |-> "", port |-> None,
         path |-> "blank", query |-> <<>>, cannot_be_a_base |-> TRUE]

\* Url::host().is_some()
HasHost(u) == u.host # ""

\* Url::host().map(to_string).unwrap_or_default()
UrlHost(u) == u.host

\* Url::to_string()
UrlString(u) ==
    u.scheme
      \o (IF u.cannot_be_a_base THEN ":"
          ELSE "://" \o u.host \o (IF u.port.some THEN ":" \o u.port.val ELSE ""))
      \o u.path
      \o (IF u.query = <<>> THEN "" ELSE "?" \o Join(u.query, "&"))

\* http::Uri parse of the URL string, as SignableRequest::new does it: after
\* "scheme://" an authority is required; a string without "//" is read as
\* an authority alone (authority-form)
UriParses(u) == u.cannot_be_a_base \/ u.host # ""

\* Uri::path of the parsed string: empty for the authority-form
UriPath(u) == IF u.cannot_be_a_base THEN "" ELSE u.path

Shapes ==
    { [method |-> "GET", url |-> Url1, body |-> None],
      [method |-> "POST", url |-> Url2, body |-> Some("{}")] }

\* content-type and x-api-key of the incoming request
OtherHeaders ==
    { <<<<>>, <<>>>>,
      <<<<"text/plain", "charset=utf-8">>, <<>>>>,
      <<<<>>, <<"key-1">>>>,
      <<<<>>, <<"\\xff">>>> }

\* headers the signer writes, as they may already be on the incoming request:
\* a host header, a previous signature (x-amz-date, authorization), a previous
\* token and payload hash (x-amz-security-token, x-amz-content-sha256)
InputHeaders ==
    { [n \in HeaderNames |->
         CASE n = "host" -> ho
           [] n = "x-amz-date" -> IF si THEN <<"20000101T000000Z">> ELSE <<>>
           [] n = "authorization" -> IF si THEN <<"Bearer abc">> ELSE <<>>
           [] n = "x-amz-security-token" -> IF pa THEN <<"old-token">> ELSE <<>>
           [] n = "x-amz-content-sha256" -> IF pa THEN <<"UNSIGNED-PAYLOAD">> ELSE <<>>
           [] n = "content-type" -> ot[1]
           [] n = "x-api-key" -> ot[2]] :
        ho \in {<<>>, <<"proxy.example.com">>},
        si \in BOOLEAN,
        pa \in BOOLEAN,
        ot \in OtherHeaders }

Requests ==
    { [method |-> s.method, url |-> s.url, headers |-> h, body |-> s.body] :
        s \in Shapes, h \in InputHeaders }

NoRequest == [method |-> "", url |-> Url1, headers |-> EmptyHeaders, body |-> None]

----------------------------------------------------------------------------
(* Builder inputs *)

Creds(ak, sk, tok) == [access_key_id |-> ak, secret_access_key |-> sk, session_token |-> tok]

CredentialChoices ==
    { Creds("AKIDEXAMPLE", "wJalrXUtnFEMI", None),
      Creds("AKIDEXAMPLE", "wJalrXUtnFEMI", Some("tok-1")),
      Creds("AKIDEXAMPLE", "", None),
      Creds("AKIDEXAMPLE", "wJalrXUtnFEMI", Some("tok\\n")) }

RegionChoices == {"", "us-east-1"}
ServiceChoices == {"", "execute-api"}
DateChoices == {-1}
SignNames == {"host", "x-api-key"}

\* SignedHeaders::default
DefaultSignedHeaders == <<"host", "x-amz-date">>

\* SigV4Builder::new
NewBuilder ==
    [headers |-> DefaultSignedHeaders, date |-> None, region |-> None,
     service |-> None, credentials |-> None]

----------------------------------------------------------------------------
(* The aws-sigv4 crate, as sign uses it *)

\* hash primitives as free constructors
Sha256Hex(x) == "sha256(" \o x \o ")"
Hmac(k, d) == "hmac(" \o k \o "," \o d \o ")"

\* lowercase of a header name (the names of the model with capitals)
Lower(n) == IF n = "X-Api-Key" THEN "x-api-key" ELSE n

\* Display for SignedHeaders: the names lowercased, joined by ";"
Display(sh) == Join([i \in 1..Len(sh) |-> Lower(sh[i])], ";")

\* SigningSettings::default().excluded_headers
ExcludedHeaders == {"authorization", "user-agent", "x-amzn-trace-id", "transfer-encoding"}

\* the query parameters of the model, sorted by key then value
ParamOrder == <<"a=1", "b=2">>

\* canonical URI of a path made of unreserved characters
CanonicalUri(u) == IF UriPath(u) = "" THEN "/" ELSE UriPath(u)

\* variant: the parameters are taken in the order of the URL
CanonicalQueryAsGiven(u) == Join(u.query, "&")

CanonicalQuery(u) == Join(SelectInOrder(ParamOrder, Range(u.query)), "&")

\* a body that is a stream: it has chunks to send but no in-memory bytes
StreamBody(chunks) == [some |-> TRUE, stream |-> chunks]

\* Body::as_bytes: Some for a body made of bytes, None for a stream
AsBytes(b) == IF "val" \in DOMAIN b THEN Some(b.val) ELSE None

\* variant: a stream is read to its end and hashed
BodyBytesRead(b) ==
    IF ~b.some THEN "" ELSE IF AsBytes(b).some THEN AsBytes(b).val ELSE b.stream

\* SignableBody::Bytes(req.body().map(as_bytes).flatten().unwrap_or_default())
BodyBytes(b) == IF b.some /\ AsBytes(b).some THEN AsBytes(b).val ELSE ""

RECURSIVE AppendAll(_, _)
\* canonical header map: every signable header appended under its lowercase name
AppendAll(h, pairs) ==
    IF pairs = <<>> THEN h
    ELSE AppendAll(AppendValue(h, Lower(pairs[1][1]), pairs[1][2]), Tail(pairs))

\* insert_host_header: only when the signable headers carry no host
WithHostFromUri(h, u) ==
    IF ContainsKey(h, HOST) THEN h
    ELSE Insert(h, HOST, IF u.port.some THEN u.host \o ":" \o u.port.val ELSE u.host)

\* CanonicalRequest::headers for SignatureLocation::Headers
CanonicalHeaders(pairs, u, p, payload_hash) ==
    LET h0 == WithHostFromUri(AppendAll(EmptyHeaders, pairs), u)
        h1 == Insert(h0, X_AMZ_DATE, FormatDateTime(p.time))
        h2 == IF p.identity.session_token.some
              THEN Insert(h1, X_AMZ_SECURITY_TOKEN, p.identity.session_token.val)
              ELSE h1
    IN  IF p.settings.payload_checksum_kind = "XAmzSha256"
        THEN Insert(h2, X_AMZ_CONTENT_SHA_256, payload_hash)
        ELSE h2

\* the signed header names: the canonical map's keys but the excluded ones, sorted
SignedHeaderNames(h) ==
    SelectInOrder(HeaderOrder, {n \in HeaderNames : h[n] # <<>>} \ ExcludedHeaders)

RECURSIVE CanonicalHeaderLines(_, _)
CanonicalHeaderLines(h, names) ==
    IF names = <<>> THEN ""
    ELSE names[1] \o ":" \o Join(h[names[1]], ",") \o "\n"
           \o CanonicalHeaderLines(h, Tail(names))

CanonicalRequest(method, u, h, names, payload_hash) ==
    method \o "\n" \o CanonicalUri(u) \o "\n" \o CanonicalQuery(u) \o "\n"
      \o CanonicalHeaderLines(h, names) \o "\n"
      \o Join(names, ";") \o "\n" \o payload_hash

CredentialScope(t, region, name) ==
    DateStamp(t) \o "/" \o region \o "/" \o name \o "/aws4_request"

StringToSign(t, region, name, creq) ==
    "AWS4-HMAC-SHA256" \o "\n" \o FormatDateTime(t) \o "\n"
      \o CredentialScope(t, region, name) \o "\n" \o Sha256Hex(creq)

\* generate_signing_key
SigningKey(secret, t, region, name) ==
    Hmac(Hmac(Hmac(Hmac("AWS4" \o secret, DateStamp(t)), region), name), "aws4_request")

\* build_authorization_header
AuthorizationValue(access_key, scope, names, signature) ==
    "AWS4-HMAC-SHA256" \o " Credential=" \o access_key \o "/" \o scope
      \o ", SignedHeaders=" \o Join(names, ";")
      \o ", Signature=" \o signature

\* variant: the token header is emitted whether or not there is a token
InstructionHeadersAlwaysToken(p, date_time, authorization, payload_hash) ==
    <<<<X_AMZ_DATE, date_time>>, <<AUTHORIZATION, authorization>>,
      <<X_AMZ_CONTENT_SHA_256, payload_hash>>,
      <<X_AMZ_SECURITY_TOKEN,
        IF p.identity.session_token.some THEN p.identity.session_token.val ELSE "">>>>

\* variant: the token header is never emitted
InstructionHeadersNoToken(p, date_time, authorization, payload_hash) ==
    <<<<X_AMZ_DATE, date_time>>, <<AUTHORIZATION, authorization>>,
      <<X_AMZ_CONTENT_SHA_256, payload_hash>>>>

\* the header list of the signing instructions (calculate_signing_headers)
InstructionHeaders(p, date_time, authorization, payload_hash) ==
    <<<<X_AMZ_DATE, date_time>>, <<AUTHORIZATION, authorization>>>>
      \o (IF p.settings.payload_checksum_kind = "XAmzSha256"
          THEN <<<<X_AMZ_CONTENT_SHA_256, payload_hash>>>> ELSE <<>>)
      \o (IF p.identity.session_token.some
          THEN <<<<X_AMZ_SECURITY_TOKEN, p.identity.session_token.val>>>> ELSE <<>>)

\* variant: the instructions carry the signature as a query parameter
InstructionQueryPresigned(p) == <<"X-Amz-Signature=" \o DateStamp(p.time)>>

\* the query list of the signing instructions: empty when signing with headers
InstructionQuery(p) == <<>>

\* aws_sigv4::http_request::sign on SignableRequest::new(method, url, pairs, body)
LibrarySign(method, u, pairs, body, p) ==
    IF ~UriParses(u)
    THEN [ok |-> FALSE, kind |-> "SigningError", msg |-> "invalid uri"]
    ELSE IF p.identity.session_token.some
              /\ p.identity.session_token.val \in InvalidHeaderStrings
    THEN [ok |-> FALSE, kind |-> "SigningError", msg |-> "invalid header value"]
    ELSE
      LET payload_hash == Sha256Hex(body)
          h     == CanonicalHeaders(pairs, u, p, payload_hash)
          names == SignedHeaderNames(h)
          creq  == CanonicalRequest(method, u, h, names, payload_hash)
          sts   == StringToSign(p.time, p.region, p.name, creq)
          key   == SigningKey(p.identity.secret_access_key, p.time, p.region, p.name)
          sig   == Hmac(key, sts)
          scope == CredentialScope(p.time, p.region, p.name)
          auth  == AuthorizationValue(p.identity.access_key_id, scope, names, sig)
      IN  [ok |-> TRUE,
           headers |-> InstructionHeaders(p, FormatDateTime(p.time), auth, payload_hash),
           query |-> InstructionQuery(p),
           time |-> p.time, scope |-> scope, signed_headers |-> names,
           canonical_headers |-> h, canonical_request |-> creq,
           payload_hash |-> payload_hash, canonical_query |-> CanonicalQuery(u),
           string_to_sign |-> sts, signature |-> sig]

----------------------------------------------------------------------------
(* SigV4Builder::sign, step by step *)

NoResult == [kind |-> "none", msg |-> ""]
Ok == [kind |-> "Ok", msg |-> ""]
Err(kind, msg) == [kind |-> kind, msg |-> msg]

\* anyhow's .context(msg) on an error: an anyhow error that displays msg and
\* keeps the error it wraps as its source
Context(e, msg) == [kind |-> "anyhow", msg |-> msg, source |-> e]

\* the error of sign as its caller returns it: sign_request wraps it
ErrorOf(by, e) ==
    IF by = "sign_request" THEN Context(e, "Could not sign request") ELSE e

\* variant: region is checked before credentials
UnwrapErrorRegionFirst(b) ==
    IF ~b.region.some
    THEN Some("region is required when creating a sigv4 request")
    ELSE IF ~b.credentials.some
    THEN Some("aws credentials are required when creating sigv4 request")
    ELSE IF ~b.service.some
    THEN Some("service is required when creating a sigv4 request")
    ELSE None

\* the ok_or checks of sign: credentials, then region, then service
UnwrapError(b) ==
    IF ~b.credentials.some
    THEN Some("aws credentials are required when creating sigv4 request")
    ELSE IF ~b.region.some
    THEN Some("region is required when creating a sigv4 request")
    ELSE IF ~b.service.some
    THEN Some("service is required when creating a sigv4 request")
    ELSE None

\* variant: the host of the URL is added without looking for a host header
EnsureHostAppending(r) ==
    [r EXCEPT !.headers = AppendValue(@, HOST, UrlHost(r.url))]

\* variant: the inserted host carries the port of the URL
EnsureHostWithPort(r) ==
    IF ~ContainsKey(r.headers, HOST)
    THEN [r EXCEPT !.headers =
                     Insert(@, HOST, UrlHost(r.url)
                                       \o (IF r.url.port.some THEN ":" \o r.url.port.val
                                           ELSE ""))]
    ELSE r

\* make sure the host value is present
EnsureHost(r) ==
    IF ~ContainsKey(r.headers, HOST)
    THEN [r EXCEPT !.headers = Insert(@, HOST, UrlHost(r.url))]
    ELSE r

\* insert x-amz-date formatted from the builder's date
InsertDate(r, date) ==
    [r EXCEPT !.headers = Insert(@, X_AMZ_DATE, ChronoFormat(date))]

\* SigningSettings of sign
SignSettings == [payload_checksum_kind |-> "XAmzSha256"]

\* v4::SigningParams::builder()...time(SystemTime::now())...build()
SigningParams(b, t) ==
    [identity |-> b.credentials.val, region |-> b.region.val, name |-> b.service.val,
     time |-> t, settings |-> SignSettings]

RECURSIVE CollectPresentHeaders(_, _)
\* variant: a sign-set name the request does not carry is skipped
CollectPresentHeaders(names, h) ==
    IF names = <<>> THEN [ok |-> TRUE, pairs |-> <<>>]
    ELSE IF ~ContainsKey(h, Lower(names[1]))
    THEN CollectPresentHeaders(Tail(names), h)
    ELSE IF Get(h, Lower(names[1])) \in NonTextValues
    THEN [ok |-> FALSE, kind |-> "ToStrError", msg |-> names[1]]
    ELSE LET rest == CollectPresentHeaders(Tail(names), h)
         IN  IF rest.ok
             THEN [ok |-> TRUE,
                   pairs |-> <<<<names[1], Get(h, Lower(names[1]))>>>> \o rest.pairs]
             ELSE rest

\* variant: every header of the request is handed to the signing call
CollectEveryHeader(names, h) ==
    LET present == SelectInOrder(HeaderOrder, {n \in HeaderNames : h[n] # <<>>})
    IN  IF \E n \in Range(present) : Get(h, n) \in NonTextValues
        THEN [ok |-> FALSE, kind |-> "ToStrError", msg |-> "header"]
        ELSE [ok |-> TRUE,
              pairs |-> [i \in 1..Len(present) |-> <<present[i], Get(h, present[i])>>]]

RECURSIVE CollectUntilRepeat(_, _)
\* variant: reading the sign-set stops at a name that was read before
CollectUntilRepeat(names, h) ==
    IF names = <<>> THEN [ok |-> TRUE, pairs |-> <<>>]
    ELSE IF ~ContainsKey(h, Lower(names[1]))
    THEN [ok |-> FALSE, kind |-> "BuildError",
          msg |-> "missing header " \o names[1] \o " which is required for signing"]
    ELSE IF Get(h, Lower(names[1])) \in NonTextValues
    THEN [ok |-> FALSE, kind |-> "ToStrError", msg |-> names[1]]
    ELSE LET rest == IF Len(names) > 1 /\ names[2] = HOST
                     THEN [ok |-> TRUE, pairs |-> <<>>]
                     ELSE CollectUntilRepeat(Tail(names), h)
         IN  IF rest.ok
             THEN [ok |-> TRUE,
                   pairs |-> <<<<names[1], Get(h, Lower(names[1]))>>>> \o rest.pairs]
             ELSE rest

RECURSIVE CollectSignedHeaders(_, _)
\* the (name, value) list of the sign-set, or the first error met
CollectSignedHeaders(names, h) ==
    IF names = <<>> THEN [ok |-> TRUE, pairs |-> <<>>]
    ELSE IF ~ContainsKey(h, Lower(names[1]))
    THEN [ok |-> FALSE, kind |-> "BuildError",
          msg |-> "missing header " \o names[1] \o " which is required for signing"]
    ELSE IF Get(h, Lower(names[1])) \in NonTextValues
    THEN [ok |-> FALSE, kind |-> "ToStrError", msg |-> names[1]]
    ELSE LET rest == CollectSignedHeaders(Tail(names), h)
         IN  IF rest.ok
             THEN [ok |-> TRUE,
                   pairs |-> <<<<names[1], Get(h, Lower(names[1]))>>>> \o rest.pairs]
             ELSE rest

RECURSIVE InsertAuthorizationOnly(_, _)
\* variant: only the authorization header of the instructions is inserted
InsertAuthorizationOnly(h, hs) ==
    IF hs = <<>> THEN h
    ELSE IF hs[1][1] = AUTHORIZATION
    THEN InsertAuthorizationOnly(Insert(h, hs[1][1], hs[1][2]), Tail(hs))
    ELSE InsertAuthorizationOnly(h, Tail(hs))

RECURSIVE InsertAllAppending(_, _)
\* variant: the instruction headers are appended to the values already there
InsertAllAppending(h, hs) ==
    IF hs = <<>> THEN h
    ELSE InsertAllAppending(AppendValue(h, hs[1][1], hs[1][2]), Tail(hs))

RECURSIVE InsertAll(_, _)
\* add headers we need from signing
InsertAll(h, hs) ==
    IF hs = <<>> THEN h
    ELSE InsertAll(Insert(h, hs[1][1], hs[1][2]), Tail(hs))

\* add query parameters needed from signing
AppendQuery(u, q) == [u EXCEPT !.query = @ \o q]

\* variant: the header map is rebuilt with insert, one value per name
ApplyInstructionsRebuilt(r, ins) ==
    [r EXCEPT !.headers =
                  InsertAll([n \in HeaderNames |->
                               IF r.headers[n] = <<>> THEN <<>> ELSE <<Head(r.headers[n])>>],
                            ins.headers),
              !.url = AppendQuery(@, ins.query)]

ApplyInstructions(r, ins) ==
    [r EXCEPT !.headers = InsertAll(@, ins.headers),
              !.url = AppendQuery(@, ins.query)]

\* lines 143-182: unwrap the builder, ensure host, insert x-amz-date; t is the
\* value of SystemTime::now() that becomes the date when the builder has none
Begin(b, r, t) ==
    /\ entry' = r
    /\ params' = None
    /\ instr' = None
    /\ signing' = None
    /\ LET e == UnwrapError(b)
       IN  IF e.some
           THEN /\ req' = r
                /\ pc' = "err"
                /\ result' = ErrorOf(caller', Err("BuildError", e.val))
           ELSE /\ req' = InsertDate(EnsureHost(r),
                                     IF b.date.some THEN b.date.val ELSE t)
                /\ pc' = "signing"
                /\ result' = NoResult

\* sign(self, req) is called on the builder
Sign(r, t) ==
    /\ pc = "build"
    /\ caller' = "sign"
    /\ Begin(builder, r, t)
    /\ now' = IF builder.date.some THEN now ELSE t
    /\ round' = 1
    /\ UNCHANGED <<builder, first>>

\* lines 184-226: signing params, the sign-set's values, the signing call
Compute(t) ==
    /\ pc = "signing"
    /\ now' = t
    /\ LET p == SigningParams(builder, t)
           c == CollectSignedHeaders(builder.headers, req.headers)
           out == LibrarySign(req.method, req.url, c.pairs, BodyBytes(req.body), p)
       IN  /\ params' = Some(p)
           /\ IF ~c.ok
              THEN /\ pc' = "err"
                   /\ result' = ErrorOf(caller, Err(c.kind, c.msg))
                   /\ UNCHANGED <<instr, signing>>
              ELSE IF ~out.ok
              THEN /\ pc' = "err"
                   /\ result' = ErrorOf(caller, Err(out.kind, out.msg))
                   /\ UNCHANGED <<instr, signing>>
              ELSE /\ pc' = "apply"
                   /\ instr' = Some([headers |-> out.headers, query |-> out.query])
                   /\ signing' = Some(out)
                   /\ UNCHANGED result
    /\ UNCHANGED <<builder, req, entry, round, first, caller>>

\* lines 229-244: insert the instruction headers, append the query, return Ok
Apply ==
    /\ pc = "apply"
    /\ req' = ApplyInstructions(req, instr.val)
    /\ pc' = "done"
    /\ result' = Ok
    /\ first' = IF round = 1 THEN Some(req'.headers[AUTHORIZATION]) ELSE first
    /\ UNCHANGED <<builder, entry, now, params, instr, signing, round, caller>>

\* a second sign call with an equal builder and an equal request
SignAgain(t) ==
    /\ pc = "done"
    /\ round = 1
    /\ UNCHANGED caller
    /\ Begin(builder, entry, t)
    /\ now' = IF builder.date.some THEN now ELSE t
    /\ round' = 2
    /\ UNCHANGED <<builder, first>>

\* sign is called again on the request the last call returned
Resign(t) ==
    /\ pc = "done"
    /\ round < MaxRounds
    /\ UNCHANGED caller
    /\ Begin(builder, req, t)
    /\ now' = IF builder.date.some THEN now ELSE t
    /\ round' = round + 1
    /\ UNCHANGED <<builder, first>>

----------------------------------------------------------------------------
(* The builder's setters *)

Building == pc = "build"

\* variant: header() replaces the sign-set instead of extending it
HeaderReplacing(h) ==
    /\ Building
    /\ Len(builder.headers) < Len(DefaultSignedHeaders) + MaxPush
    /\ builder' = [builder EXCEPT !.headers = <<h>>]
    /\ UNCHANGED <<req, entry, pc, now, params, instr, signing, result, round, first, caller>>

\* header(): push the name, on a builder that had fewer than n header() calls
PushHeader(h, n) ==
    /\ Building
    /\ Len(builder.headers) < Len(DefaultSignedHeaders) + n
    /\ builder' = [builder EXCEPT !.headers = Append(@, h)]
    /\ UNCHANGED <<req, entry, pc, now, params, instr, signing, result, round, first, caller>>

Header(h) == PushHeader(h, MaxPush)

Date(d) ==
    /\ Building
    /\ builder' = [builder EXCEPT !.date = Some(d)]
    /\ UNCHANGED <<req, entry, pc, now, params, instr, signing, result, round, first, caller>>

Region(r) ==
    /\ Building
    /\ builder' = [builder EXCEPT !.region = Some(r)]
    /\ UNCHANGED <<req, entry, pc, now, params, instr, signing, result, round, first, caller>>

Service(s) ==
    /\ Building
    /\ builder' = [builder EXCEPT !.service = Some(s)]
    /\ UNCHANGED <<req, entry, pc, now, params, instr, signing, result, round, first, caller>>

Credentials(c) ==
    /\ Building
    /\ builder' = [builder EXCEPT !.credentials = Some(c)]
    /\ UNCHANGED <<req, entry, pc, now, params, instr, signing, result, round, first, caller>>

----------------------------------------------------------------------------
(* Sigv4Request::sign_request *)

\* what the loaded AWS config gives: region and the credentials provider's answer
ConfigRegions == {None, Some("us-east-1")}
ProviderOutcomes ==
    { [kind |-> "none"], [kind |-> "error"],
      [kind |-> "ok", creds |-> Creds("AKIDEXAMPLE", "wJalrXUtnFEMI", None)],
      [kind |-> "ok", creds |-> Creds("AKIDEXAMPLE", "wJalrXUtnFEMI", Some("tok-1"))],
      [kind |-> "ok", creds |-> Creds("AKIDEXAMPLE", "wJalrXUtnFEMI", Some("tok\\n"))] }
ServiceArgs == {None, Some("s3")}

\* variant: the service argument is ignored
RequestBuilderExecuteApi(cfg_region, service, creds, t) ==
    [headers |-> DefaultSignedHeaders,
     date |-> Some(t),
     region |-> Some(IF cfg_region.some THEN cfg_region.val ELSE ""),
     service |-> Some("execute-api"),
     credentials |-> Some(creds)]

\* the builder sign_request signs with
RequestBuilder(cfg_region, service, creds, t) ==
    [headers |-> DefaultSignedHeaders,
     date |-> Some(t),
     region |-> Some(IF cfg_region.some THEN cfg_region.val ELSE ""),
     service |-> Some(IF service.some THEN service.val ELSE "execute-api"),
     credentials |-> Some(creds)]

SignRequest(r, cfg_region, service, provider, t) ==
    /\ pc = "build"
    /\ builder = NewBuilder
    /\ round' = 1
    /\ first' = first
    /\ caller' = "sign_request"
    /\ IF provider.kind # "ok"
       THEN /\ pc' = "err"
            /\ result' = Err("anyhow",
                             IF provider.kind = "none" THEN "AWS credentials not found"
                             ELSE "could not fetch credentials")
            /\ req' = r
            /\ entry' = r
            /\ UNCHANGED <<builder, now, params, instr, signing>>
       ELSE /\ builder' = RequestBuilder(cfg_region, service, provider.creds, t)
            /\ now' = t
            /\ Begin(builder', r, t)

\* sign run from entry to return: t is the clock value that becomes the date
\* of a builder without one, t2 the one read for the signing params
SignOutcome(b, r, t, t2) ==
    IF UnwrapError(b).some
    THEN [ok |-> FALSE, result |-> Err("BuildError", UnwrapError(b).val), req |-> r]
    ELSE
      LET r1 == InsertDate(EnsureHost(r), IF b.date.some THEN b.date.val ELSE t)
          c == CollectSignedHeaders(b.headers, r1.headers)
          out == LibrarySign(r1.method, r1.url, c.pairs, BodyBytes(r1.body),
                             SigningParams(b, t2))
      IN  IF ~c.ok THEN [ok |-> FALSE, result |-> Err(c.kind, c.msg), req |-> r1]
          ELSE IF ~out.ok THEN [ok |-> FALSE, result |-> Err(out.kind, out.msg), req |-> r1]
          ELSE [ok |-> TRUE, result |-> Ok,
                req |-> ApplyInstructions(r1, [headers |-> out.headers, query |-> out.query]),
                signing |-> out]

\* .context("Could not sign request")? on what sign returned
WithContext(o) ==
    IF o.ok THEN o ELSE [o EXCEPT !.result = ErrorOf("sign_request", @)]

\* sign_request run from entry to return
SignRequestOutcome(r, cfg_region, service, provider, t, t2) ==
    IF provider.kind = "none"
    THEN [ok |-> FALSE, result |-> Err("anyhow", "AWS credentials not found"), req |-> r]
    ELSE IF provider.kind = "error"
    THEN [ok |-> FALSE, result |-> Err("anyhow", "could not fetch credentials"), req |-> r]
    ELSE WithContext(SignOutcome(RequestBuilder(cfg_region, service, provider.creds, t),
                                 r, t, t2))

----------------------------------------------------------------------------
(* The command line: run_root and run_run *)

\* the ids of the arguments command() defines for signing
SIGV4 == "sigv4"
SIGV4_AWS_PROFILE == "sigv4-aws-profile"
SIGV4_SERVICE == "sigv4-service"

\* the id the three paths read the service name with
SIGV4_AWS_SERVICE == "sigv4-aws-service"

\* the ArgMatches of command(): one entry per defined id
Matches(flag, service) ==
    [id \in {SIGV4, SIGV4_AWS_PROFILE, SIGV4_SERVICE} |->
        CASE id = SIGV4 -> Some(flag)
          [] id = SIGV4_AWS_PROFILE -> None
          [] id = SIGV4_SERVICE -> service]

\* ArgMatches::get_one: an id that is not defined panics in a build with debug
\* assertions and is None in a build without
GetOne(m, id, build) ==
    IF id \in DOMAIN m THEN [panic |-> FALSE, val |-> m[id]]
    ELSE IF build = "debug" THEN [panic |-> TRUE, val |-> None]
    ELSE [panic |-> FALSE, val |-> None]

\* the two functions the dispatch of run can reach
Paths == {"run_root", "run_run"}
Builds == {"debug", "release"}
ServiceFlags == {None, Some("lambda")}

\* Environment: Empty, or an endpoint with its name, its optional template
\* directory and its sigv4 settings
Empty ==
    [kind |-> "Empty", name |-> "", template_dir |-> None,
     sigv4 |-> None, sigv4_aws_service |-> None]
Endpoint(name, template_dir, sigv4, service) ==
    [kind |-> "Endpoint", name |-> name, template_dir |-> template_dir,
     sigv4 |-> sigv4, sigv4_aws_service |-> service]
Environments ==
    { Empty,
      Endpoint("plain", None, None, None),
      Endpoint("on", None, Some(TRUE), None),
      Endpoint("dev", Some("templates"), None, None),
      Endpoint("dev", Some("templates"), Some(FALSE), Some("s3")),
      Endpoint("dev", Some("templates"), Some(TRUE), None),
      Endpoint("dev", Some("templates"), Some(TRUE), Some("s3")) }

\* the template argument of `run`, and whether the template's file loads
TemplateArgs == {None, Some("help"), Some("--help"), Some("hello")}

\* Environment::name
Name(env) == IF env.kind = "Endpoint" THEN Some(env.name) ELSE None

\* {:?} of an Option<&String>
DebugOption(o) == IF o.some THEN "Some(\"" \o o.val \o "\")" ELSE "None"

\* the requests the command line builds: bare, or with bearer auth
CliRequests ==
    { r \in Requests :
        /\ r.method = "GET"
        /\ r.headers["content-type"] = <<>> /\ r.headers["x-api-key"] = <<>>
        /\ r.headers[HOST] = <<>> /\ r.headers[X_AMZ_SECURITY_TOKEN] = <<>> }

CliIdle ==
    [pc |-> "start", path |-> "", build |-> "", args |-> Matches(FALSE, None),
     template |-> None, env |-> Empty,
     dry |-> FALSE, request |-> NoRequest, signs |-> <<>>, sent |-> None, clock |-> 0,
     error |-> None]

\* one sign_request call that signed: its arguments and what it signed
SignCall(service, cfg_region, provider, out) ==
    [service |-> service, region |-> cfg_region, creds |-> provider.creds,
     scope |-> out.signing.scope, time |-> out.signing.time,
     signed_headers |-> out.signing.signed_headers,
     signature |-> out.signing.signature,
     authorization |-> out.req.headers[AUTHORIZATION],
     request |-> out.req]

\* crate::Error::Error(#[from] anyhow::Error): displays as the error it wraps
FromAnyhow(e) == [kind |-> "Error", msg |-> e.msg, source |-> e]

\* add_source_environment: the template's file is a source only for an
\* endpoint that has a template directory
AddSourceEnvironment(env) ==
    IF env.kind = "Empty"
    THEN [ok |-> FALSE, result |-> Err("KlaError", "no environment set")]
    ELSE IF ~env.template_dir.some
    THEN [ok |-> FALSE, result |-> Err("KlaError", "no template directory set")]
    ELSE [ok |-> TRUE, result |-> Ok]

\* run_run up to the template's config (239-266): "run_run_empty" is the
\* return into run_run_empty, "error" in the Err of add_source_environment
LoadTemplate(template, env, loads) ==
    IF ~template.some \/ template.val \in {"help", "--help"}
    THEN [pc |-> "run_run_empty", error |-> None]
    ELSE IF ~AddSourceEnvironment(env).ok
    THEN [pc |-> "error",
          error |-> Some(Context(AddSourceEnvironment(env).result,
                                 "could not load " \o template.val
                                   \o " for environment " \o DebugOption(Name(env))))]
    ELSE IF ~loads
    THEN [pc |-> "run_run_empty", error |-> None]
    ELSE [pc |-> "built", error |-> None]

\* the request is built from the arguments (run_root 571-615); run_run loads
\* the template of the environment first (239-266) and then builds (304-355).
\* pc "run_run_empty": the templates are listed as commands, no request is made
Build(path, build, flag, service, env, dry, r, template, loads) ==
    /\ cli.pc = "start"
    /\ IF path = "run_run" /\ LoadTemplate(template, env, loads).pc # "built"
       THEN cli' = [cli EXCEPT
                      !.pc = LoadTemplate(template, env, loads).pc,
                      !.path = path, !.build = build,
                      !.args = Matches(flag, service), !.template = template,
                      !.env = env, !.dry = dry,
                      !.error = LoadTemplate(template, env, loads).error]
       ELSE cli' = [cli EXCEPT !.pc = "built", !.path = path, !.build = build,
                               !.args = Matches(flag, service),
                               !.template = IF path = "run_run" THEN template ELSE None,
                               !.env = env, !.dry = dry, !.request = r]

\* variant: a failed sign_request is dropped and the request goes on unsigned
WithEnvironmentLenient(cfg_region, provider, t, t2) ==
    /\ cli.pc = "built"
    /\ IF cli.env.kind = "Empty" \/ ~(cli.env.sigv4.some /\ cli.env.sigv4.val)
       THEN cli' = [cli EXCEPT !.pc = "with_environment"]
       ELSE LET out == SignRequestOutcome(cli.request, cfg_region,
                                          cli.env.sigv4_aws_service, provider, t, t2)
            IN  IF out.ok
                THEN cli' = [cli EXCEPT
                               !.pc = "with_environment", !.request = out.req,
                               !.clock = t2,
                               !.signs = Append(@, SignCall(cli.env.sigv4_aws_service,
                                                            cfg_region, provider, out))]
                ELSE cli' = [cli EXCEPT !.pc = "with_environment", !.clock = t2]

\* request.with_environment(&env): signs when the endpoint's sigv4 is true
WithEnvironment(cfg_region, provider, t, t2) ==
    /\ cli.pc = "built"
    /\ IF cli.env.kind = "Empty" \/ ~(cli.env.sigv4.some /\ cli.env.sigv4.val)
       THEN cli' = [cli EXCEPT !.pc = "with_environment"]
       ELSE LET out == SignRequestOutcome(cli.request, cfg_region,
                                          cli.env.sigv4_aws_service, provider, t, t2)
            IN  IF out.ok
                THEN cli' = [cli EXCEPT
                               !.pc = "with_environment", !.request = out.req,
                               !.clock = t2,
                               !.signs = Append(@, SignCall(cli.env.sigv4_aws_service,
                                                            cfg_region, provider, out))]
                ELSE cli' = [cli EXCEPT !.pc = "error", !.request = out.req,
                                        !.clock = t2,
                                        !.error = Some(FromAnyhow(out.result))]

\* if args.get_one("sigv4") { request.sign_request(get_one(profile), get_one(service)) }
FlagSign(cfg_region, provider, t, t2) ==
    /\ cli.pc = "with_environment"
    /\ LET flag == GetOne(cli.args, SIGV4, cli.build)
           profile == GetOne(cli.args, SIGV4_AWS_PROFILE, cli.build)
           service == GetOne(cli.args, SIGV4_AWS_SERVICE, cli.build)
       IN  IF flag.panic THEN cli' = [cli EXCEPT !.pc = "panic"]
           ELSE IF ~(flag.val.some /\ flag.val.val)
           THEN cli' = [cli EXCEPT !.pc = "signed"]
           ELSE IF profile.panic \/ service.panic
           THEN cli' = [cli EXCEPT !.pc = "panic"]
           ELSE LET out == SignRequestOutcome(cli.request, cfg_region, service.val,
                                              provider, t, t2)
                IN  IF out.ok
                    THEN cli' = [cli EXCEPT
                                   !.pc = "signed", !.request = out.req, !.clock = t2,
                                   !.signs = Append(@, SignCall(service.val, cfg_region,
                                                                provider, out))]
                    ELSE cli' = [cli EXCEPT !.pc = "error", !.request = out.req,
                                            !.clock = t2,
                                            !.error = Some(out.result)]

\* variant: a query parameter is added to the request on the way to execute
ExecuteWithQuery ==
    /\ cli.pc = "signed"
    /\ cli' = [cli EXCEPT !.pc = "done",
                          !.sent = IF cli.dry THEN None
                                   ELSE Some([cli.request EXCEPT
                                                !.url = AppendQuery(@, <<"a=1">>)])]

\* the dry run makes a default response, else client.execute(request)
Execute ==
    /\ cli.pc = "signed"
    /\ cli' = [cli EXCEPT !.pc = "done",
                          !.sent = IF cli.dry THEN None ELSE Some(cli.request)]

----------------------------------------------------------------------------
(* sign calls in parallel *)

Calls == {1, 2}

\* variant: the calls keep their locals in one shared place
SlotShared(c) == 1

\* sign(self, mut req) owns its builder and its request: each call has its own
\* locals
Slot(c) == c

\* the locals of a call that has not started
CallIdle ==
    [pc |-> "idle", builder |-> NewBuilder, req |-> NoRequest, date |-> 0, time |-> 0,
     params |-> None, instr |-> None, result |-> NoResult]

ParIdle ==
    [clock |-> 0, input |-> [c \in Calls |-> None], call |-> [c \in Calls |-> CallIdle]]

\* builders of the parallel calls: complete without and with a date and a
\* pushed name, and one without credentials
ParBuilders ==
    { [NewBuilder EXCEPT !.region = Some("us-east-1"), !.service = Some("execute-api"),
                         !.credentials = Some(Creds("AKIDEXAMPLE", "wJalrXUtnFEMI", None))],
      [NewBuilder EXCEPT !.headers = Append(@, "x-api-key"), !.date = Some(-1),
                         !.region = Some("us-east-1"), !.service = Some("s3"),
                         !.credentials =
                             Some(Creds("AKIDEXAMPLE", "wJalrXUtnFEMI", Some("tok-1")))],
      [NewBuilder EXCEPT !.region = Some("us-east-1")] }

ParRequests ==
    { r \in Requests :
        /\ r.method = "GET"
        /\ r.headers[X_AMZ_DATE] = <<>> /\ r.headers[X_AMZ_SECURITY_TOKEN] = <<>>
        /\ r.headers[HOST] = <<>> }

\* lines 143-182 on the call's own builder and request
CallBegin(b, r, t) ==
    IF UnwrapError(b).some
    THEN [CallIdle EXCEPT !.pc = "err", !.builder = b, !.req = r,
                          !.result = Err("BuildError", UnwrapError(b).val)]
    ELSE [CallIdle EXCEPT !.pc = "signing", !.builder = b, !.date = t,
                          !.req = InsertDate(EnsureHost(r),
                                             IF b.date.some THEN b.date.val ELSE t)]

\* lines 184-226 on the call's locals
CallCompute(k, t) ==
    LET p == SigningParams(k.builder, t)
        c == CollectSignedHeaders(k.builder.headers, k.req.headers)
        out == LibrarySign(k.req.method, k.req.url, c.pairs, BodyBytes(k.req.body), p)
    IN  IF ~c.ok
        THEN [k EXCEPT !.pc = "err", !.time = t, !.params = Some(p),
                       !.result = Err(c.kind, c.msg)]
        ELSE IF ~out.ok
        THEN [k EXCEPT !.pc = "err", !.time = t, !.params = Some(p),
                       !.result = Err(out.kind, out.msg)]
        ELSE [k EXCEPT !.pc = "apply", !.time = t, !.params = Some(p),
                       !.instr = Some([headers |-> out.headers, query |-> out.query])]

\* lines 229-244 on the call's locals
CallApply(k) ==
    [k EXCEPT !.pc = "done", !.req = ApplyInstructions(k.req, k.instr.val),
              !.result = Ok]

\* call c enters sign with builder b and request r
ParSign(c, b, r, t) ==
    /\ par.input[c] = None
    /\ par' = [par EXCEPT !.clock = IF b.date.some THEN @ ELSE t,
                          !.input[c] = Some([builder |-> b, request |-> r]),
                          !.call[Slot(c)] = CallBegin(b, r, t)]

ParCompute(c, t) ==
    /\ par.input[c] # None
    /\ par.call[Slot(c)].pc = "signing"
    /\ par' = [par EXCEPT !.clock = t,
                          !.call[Slot(c)] = CallCompute(par.call[Slot(c)], t)]

ParApply(c) ==
    /\ par.input[c] # None
    /\ par.call[Slot(c)].pc = "apply"
    /\ par' = [par EXCEPT !.call[Slot(c)] = CallApply(par.call[Slot(c)])]

----------------------------------------------------------------------------
(* Specification *)

Instants == 0..MaxNow

Init ==
    /\ builder = NewBuilder
    /\ req = NoRequest
    /\ entry = NoRequest
    /\ pc = "build"
    /\ now = 0
    /\ params = None
    /\ instr = None
    /\ signing = None
    /\ result = NoResult
    /\ round = 0
    /\ first = None
    /\ caller = ""
    /\ cli = CliIdle
    /\ par = ParIdle

Next ==
    \/ (\E h \in SignNames : Header(h)) /\ UNCHANGED <<cli, par>>
    \/ (\E d \in DateChoices : Date(d)) /\ UNCHANGED <<cli, par>>
    \/ (\E r \in RegionChoices : Region(r)) /\ UNCHANGED <<cli, par>>
    \/ (\E s \in ServiceChoices : Service(s)) /\ UNCHANGED <<cli, par>>
    \/ (\E c \in CredentialChoices : Credentials(c)) /\ UNCHANGED <<cli, par>>
    \/ (\E r \in Requests, t \in Instants : t >= now /\ Sign(r, t)) /\ UNCHANGED <<cli, par>>
    \/ (\E t \in Instants : t >= now /\ Compute(t)) /\ UNCHANGED <<cli, par>>
    \/ Apply /\ UNCHANGED <<cli, par>>
    \/ (\E r \in Requests, g \in ConfigRegions, s \in ServiceArgs,
           o \in ProviderOutcomes, t \in Instants :
           t >= now /\ SignRequest(r, g, s, o, t)) /\ UNCHANGED <<cli, par>>

Spec == Init /\ [][Next]_vars

\* the same call made a second time, at a later wall-clock time
NextTwice ==
    \/ Next
    \/ (\E t \in Instants : t >= now /\ SignAgain(t)) /\ UNCHANGED <<cli, par>>

SpecTwice == Init /\ [][NextTwice]_vars

\* one run of the command line
NextCli ==
    \/ (\E path \in Paths, build \in Builds, flag \in BOOLEAN, s \in ServiceFlags,
           env \in Environments, dry \in BOOLEAN, r \in CliRequests,
           template \in TemplateArgs, loads \in BOOLEAN :
           Build(path, build, flag, s, env, dry, r, template, loads))
       /\ UNCHANGED <<signVars, par>>
    \/ (\E g \in ConfigRegions, o \in ProviderOutcomes, t \in Instants, t2 \in Instants :
           /\ cli.clock <= t /\ t <= t2
           /\ WithEnvironment(g, o, t, t2)) /\ UNCHANGED <<signVars, par>>
    \/ (\E g \in ConfigRegions, o \in ProviderOutcomes, t \in Instants, t2 \in Instants :
           /\ cli.clock <= t /\ t <= t2
           /\ FlagSign(g, o, t, t2)) /\ UNCHANGED <<signVars, par>>
    \/ Execute /\ UNCHANGED <<signVars, par>>

SpecCli == Init /\ [][NextCli]_vars

\* builders that differ in the order of their header() calls
OrderRequests ==
    { r \in Requests :
        /\ r.method = "GET"
        /\ r.headers[X_AMZ_SECURITY_TOKEN] = <<>> }

NextOrder ==
    \/ (\E h \in SignNames : PushHeader(h, MaxOrder)) /\ UNCHANGED <<cli, par>>
    \/ (\E d \in DateChoices : Date(d)) /\ UNCHANGED <<cli, par>>
    \/ (\E r \in RegionChoices : Region(r)) /\ UNCHANGED <<cli, par>>
    \/ (\E s \in ServiceChoices : Service(s)) /\ UNCHANGED <<cli, par>>
    \/ (\E c \in CredentialChoices : Credentials(c)) /\ UNCHANGED <<cli, par>>
    \/ (\E r \in OrderRequests, t \in Instants : t >= now /\ Sign(r, t)) /\ UNCHANGED <<cli, par>>
    \/ (\E t \in Instants : t >= now /\ Compute(t)) /\ UNCHANGED <<cli, par>>
    \/ Apply /\ UNCHANGED <<cli, par>>

SpecOrder == Init /\ [][NextOrder]_vars

\* two sign calls whose steps interleave
NextPar ==
    \/ (\E c \in Calls, b \in ParBuilders, r \in ParRequests, t \in Instants :
           t >= par.clock /\ ParSign(c, b, r, t)) /\ UNCHANGED <<signVars, cli>>
    \/ (\E c \in Calls, t \in Instants :
           t >= par.clock /\ ParCompute(c, t)) /\ UNCHANGED <<signVars, cli>>
    \/ (\E c \in Calls : ParApply(c)) /\ UNCHANGED <<signVars, cli>>

SpecPar == Init /\ [][NextPar]_vars

\* requests off the common path: a URL with a port, with sorted and unsorted
\* query, without host; a stream body; sign-set headers with several values
EdgeSignNames == {"content-type", "X-Api-Key"}
EdgeUrls == {Url1, Url2, Url3, Url4, Url5}
EdgeBodies == {None, Some("{}"), StreamBody("{}")}
EdgeHeaders ==
    { EmptyHeaders,
      [EmptyHeaders EXCEPT !["content-type"] = <<"text/plain", "charset=utf-8">>,
                           !["x-api-key"] = <<"key-1", "key-2">>],
      [EmptyHeaders EXCEPT ![HOST] = <<"proxy.example.com">>,
                           !["x-api-key"] = <<"key-1">>] }
EdgeRequests ==
    { [method |-> "POST", url |-> u, headers |-> h, body |-> b] :
        u \in EdgeUrls, h \in EdgeHeaders, b \in EdgeBodies }

NextEdge ==
    \/ (\E h \in EdgeSignNames : Header(h)) /\ UNCHANGED <<cli, par>>
    \/ (\E d \in DateChoices : Date(d)) /\ UNCHANGED <<cli, par>>
    \/ (\E r \in RegionChoices : Region(r)) /\ UNCHANGED <<cli, par>>
    \/ (\E s \in ServiceChoices : Service(s)) /\ UNCHANGED <<cli, par>>
    \/ (\E c \in CredentialChoices : Credentials(c)) /\ UNCHANGED <<cli, par>>
    \/ (\E r \in EdgeRequests, t \in Instants : t >= now /\ Sign(r, t))
          /\ UNCHANGED <<cli, par>>
    \/ (\E t \in Instants : t >= now /\ Compute(t)) /\ UNCHANGED <<cli, par>>
    \/ Apply /\ UNCHANGED <<cli, par>>

SpecEdge == Init /\ [][NextEdge]_vars

\* sign-sets of up to MaxOrder pushed names over requests where each of the
\* names is absent, text, not text, or text followed by a value that is not text
SignSetNames == {"content-type", "x-api-key"}
SignSetRequests ==
    { [method |-> "GET", url |-> Url1, body |-> None,
       headers |-> [EmptyHeaders EXCEPT !["content-type"] = c, !["x-api-key"] = k]] :
        c \in {<<>>, <<"text/plain">>, <<"\\xff">>, <<"text/plain", "\\xff">>},
        k \in {<<>>, <<"key-1">>, <<"\\xff">>} }

NextSignSet ==
    \/ (\E h \in SignSetNames : PushHeader(h, MaxOrder)) /\ UNCHANGED <<cli, par>>
    \/ (\E d \in DateChoices : Date(d)) /\ UNCHANGED <<cli, par>>
    \/ (\E r \in RegionChoices : Region(r)) /\ UNCHANGED <<cli, par>>
    \/ (\E s \in ServiceChoices : Service(s)) /\ UNCHANGED <<cli, par>>
    \/ (\E c \in CredentialChoices : Credentials(c)) /\ UNCHANGED <<cli, par>>
    \/ (\E r \in SignSetRequests, t \in Instants : t >= now /\ Sign(r, t))
          /\ UNCHANGED <<cli, par>>
    \/ (\E t \in Instants : t >= now /\ Compute(t)) /\ UNCHANGED <<cli, par>>
    \/ Apply /\ UNCHANGED <<cli, par>>

SpecSignSet == Init /\ [][NextSignSet]_vars

\* sign applied in sequence to the request it returned
NextResign ==
    \/ (\E h \in SignNames : Header(h)) /\ UNCHANGED <<cli, par>>
    \/ (\E d \in DateChoices : Date(d)) /\ UNCHANGED <<cli, par>>
    \/ (\E r \in RegionChoices : Region(r)) /\ UNCHANGED <<cli, par>>
    \/ (\E s \in ServiceChoices : Service(s)) /\ UNCHANGED <<cli, par>>
    \/ (\E c \in CredentialChoices : Credentials(c)) /\ UNCHANGED <<cli, par>>
    \/ (\E r \in OrderRequests, t \in Instants : t >= now /\ Sign(r, t))
          /\ UNCHANGED <<cli, par>>
    \/ (\E t \in Instants : t >= now /\ Compute(t)) /\ UNCHANGED <<cli, par>>
    \/ Apply /\ UNCHANGED <<cli, par>>
    \/ (\E t \in Instants : t >= now /\ Resign(t)) /\ UNCHANGED <<cli, par>>

SpecResign == Init /\ [][NextResign]_vars

----------------------------------------------------------------------------
(* Claims *)

Returned == pc = "done"
Failed == pc = "err"
Called == pc # "build"

\* the Authorization value aws-sigv4 builds from what it signed
SignedAuthorization ==
    AuthorizationValue(params.val.identity.access_key_id, signing.val.scope,
                       signing.val.signed_headers, signing.val.signature)

\* C1: two sign calls with the same request, credentials, region, service,
\* sign-set and builder date return the same Authorization value, whatever
\* the wall-clock time of each call.
C1_Determinism ==
    (Returned /\ round = 2 /\ builder.date.some)
        => req.headers[AUTHORIZATION] = first.val

\* C2: a sign call that returns an error leaves the header map as it was on
\* entry: host and x-amz-date are not inserted unless authorization is.
C2_NoPartialMutation ==
    Failed => req.headers = entry.headers

\* C3: sign with an empty secret key, an empty region or an empty service
\* returns SigningError::BuildError and changes no header.
C3_EmptyFieldRejected ==
    (Called
       /\ \/ builder.credentials.some /\ builder.credentials.val.secret_access_key = ""
          \/ builder.region.some /\ builder.region.val = ""
          \/ builder.service.some /\ builder.service.val = "")
        => /\ Failed
           /\ result.kind = "BuildError"
           /\ req.headers = entry.headers

\* C4: after a successful sign on a builder with date d, x-amz-date is d as
\* YYYYMMDD'T'HHMMSS'Z' and d is the time of the signature's credential scope.
C4_DateHeaderIsBuilderDate ==
    (Returned /\ builder.date.some)
        => /\ req.headers[X_AMZ_DATE] = <<FormatDateTime(builder.date.val)>>
           /\ signing.val.time = builder.date.val
           /\ signing.val.scope
                = CredentialScope(builder.date.val, builder.region.val, builder.service.val)

\* C5: after a successful sign the request holds exactly one x-amz-date value,
\* the timestamp the signature was computed with (the one in the string to
\* sign and in the canonical headers), whatever x-amz-date came in.
C5_DateMatchesSignature ==
    Returned
        => /\ req.headers[X_AMZ_DATE] = <<FormatDateTime(signing.val.time)>>
           /\ signing.val.canonical_headers[X_AMZ_DATE] = req.headers[X_AMZ_DATE]
           /\ X_AMZ_DATE \in Range(signing.val.signed_headers)
           /\ signing.val.string_to_sign
                = StringToSign(signing.val.time, builder.region.val, builder.service.val,
                               signing.val.canonical_request)
           /\ req.headers[AUTHORIZATION] = <<SignedAuthorization>>

C5_Witness ==
    /\ Returned
    /\ entry.headers[X_AMZ_DATE] = <<"20000101T000000Z">>
    /\ builder.date.some
    /\ builder.date.val # signing.val.time

SignerHeaders == {HOST, X_AMZ_DATE, X_AMZ_SECURITY_TOKEN, AUTHORIZATION}

\* C6 as claimed: a successful sign leaves every header outside {host,
\* x-amz-date, x-amz-security-token, authorization} with the same values.
C6_PreservesAllOthers ==
    Returned
        => \A n \in HeaderNames \ SignerHeaders : req.headers[n] = entry.headers[n]

\* C6 amended: a successful sign leaves every header outside {host, x-amz-date,
\* x-amz-security-token, authorization, x-amz-content-sha256} present with the
\* same values in the same order.
C6_HeaderPreservation ==
    Returned
        => \A n \in HeaderNames \ (SignerHeaders \cup {X_AMZ_CONTENT_SHA_256}) :
              req.headers[n] = entry.headers[n]

C6_Witness ==
    /\ Returned
    /\ entry.headers["content-type"] = <<"text/plain", "charset=utf-8">>
    /\ req.headers[AUTHORIZATION] # entry.headers[AUTHORIZATION]

AddedNames == {n \in HeaderNames : req.headers[n] # <<>> /\ entry.headers[n] = <<>>}

\* C7 as claimed: a successful sign adds header names only from {host,
\* x-amz-date, authorization, x-amz-security-token}.
C7_AddsOnlyFour ==
    Returned => AddedNames \subseteq SignerHeaders

\* C7 amended: a successful sign adds header names only from {host, x-amz-date,
\* authorization, x-amz-security-token, x-amz-content-sha256}, and
\* x-amz-security-token only when the credentials carry a session token.
C7_AddsOnlySignerHeaders ==
    Returned
        => /\ AddedNames \subseteq SignerHeaders \cup {X_AMZ_CONTENT_SHA_256}
           /\ X_AMZ_SECURITY_TOKEN \in AddedNames
                => builder.credentials.val.session_token.some

C7_Witness ==
    /\ Returned
    /\ AddedNames = {HOST, X_AMZ_DATE, AUTHORIZATION, X_AMZ_SECURITY_TOKEN,
                     X_AMZ_CONTENT_SHA_256}

\* C8: a successful sign leaves method, URL (with the number and order of the
\* query pairs) and body as they were; no query parameter is appended.
C8_MethodUrlBodyUnchanged ==
    Returned
        => /\ req.method = entry.method
           /\ req.url = entry.url
           /\ req.body = entry.body

C8_Witness ==
    /\ Returned
    /\ entry.url.query = <<"b=2", "a=1">>
    /\ entry.body.some
    /\ req.headers # entry.headers

\* C9: with a session token t the signed request has x-amz-security-token
\* equal to t, replacing any prior value, and the name is in the SignedHeaders
\* of the Authorization value; without a token sign does not insert the header.
C9_SessionToken ==
    Returned
        => IF builder.credentials.val.session_token.some
           THEN /\ req.headers[X_AMZ_SECURITY_TOKEN]
                     = <<builder.credentials.val.session_token.val>>
                /\ X_AMZ_SECURITY_TOKEN \in Range(signing.val.signed_headers)
                /\ req.headers[AUTHORIZATION] = <<SignedAuthorization>>
           ELSE req.headers[X_AMZ_SECURITY_TOKEN] = entry.headers[X_AMZ_SECURITY_TOKEN]

C9_Witness ==
    /\ Returned
    /\ builder.credentials.val.session_token.some
    /\ entry.headers[X_AMZ_SECURITY_TOKEN] = <<"old-token">>

\* C10: after a successful sign the request has a host header, unchanged if it
\* came in, derived from the URL otherwise, and the host value canonicalised
\* into the signature is the host header of the returned request.
C10_HostSignedAsSent ==
    Returned
        => /\ req.headers[HOST] # <<>>
           /\ entry.headers[HOST] # <<>> => req.headers[HOST] = entry.headers[HOST]
           /\ entry.headers[HOST] = <<>> => req.headers[HOST] = <<UrlHost(entry.url)>>
           /\ signing.val.canonical_headers[HOST] = req.headers[HOST]

\* C11: after a successful sign the request has exactly one authorization
\* value, "AWS4-HMAC-SHA256 Credential={access key id}/{date}/{region}/
\* {service}/aws4_request, SignedHeaders=..., Signature=...", built from the
\* builder's access key id, region and service; a value present before the
\* call is replaced.
C11_SingleAuthorization ==
    Returned
        => req.headers[AUTHORIZATION] =
             << "AWS4-HMAC-SHA256 Credential="
                  \o builder.credentials.val.access_key_id
                  \o "/" \o DateStamp(signing.val.time)
                  \o "/" \o builder.region.val
                  \o "/" \o builder.service.val \o "/aws4_request"
                  \o ", SignedHeaders=" \o Join(signing.val.signed_headers, ";")
                  \o ", Signature=" \o signing.val.signature >>

C11_Witness ==
    /\ Returned
    /\ entry.headers[AUTHORIZATION] = <<"Bearer abc">>
    /\ Len(req.headers[AUTHORIZATION]) = 1

\* C12: every builder reached from SigV4Builder::new() by header(), date(),
\* region(), service() and credentials() calls has host and x-amz-date in its
\* sign-set, and both are in the SignedHeaders of every successful sign.
C12_HostAndDateAlwaysSigned ==
    /\ {HOST, X_AMZ_DATE} \subseteq Range(builder.headers)
    /\ Returned => {HOST, X_AMZ_DATE} \subseteq Range(signing.val.signed_headers)

C12_Witness ==
    /\ Returned
    /\ Len(builder.headers) > Len(DefaultSignedHeaders)
    /\ builder.date.some

\* positions of the sign-set whose header the request does not carry when the
\* sign-set is read (host and x-amz-date have been inserted by then)
MissingSignNames ==
    {i \in DOMAIN builder.headers :
        /\ Lower(builder.headers[i]) \notin {HOST, X_AMZ_DATE}
        /\ entry.headers[Lower(builder.headers[i])] = <<>>}

\* positions of the sign-set whose header value, as sign reads it with get, is
\* not text
NonTextSignNames ==
    {i \in DOMAIN builder.headers :
        /\ Lower(builder.headers[i]) # X_AMZ_DATE
        /\ entry.headers[Lower(builder.headers[i])] # <<>>
        /\ Head(entry.headers[Lower(builder.headers[i])]) \in NonTextValues}

MissingHeaderMessage(i) ==
    "missing header " \o builder.headers[i] \o " which is required for signing"

\* the error of a call whose sign-set has a missing or non-text header: the
\* unset builder field first, else the first such name in sign-set order
SignSetError ==
    IF UnwrapError(builder).some
    THEN Err("BuildError", UnwrapError(builder).val)
    ELSE LET bad == MissingSignNames \cup NonTextSignNames
             i == CHOOSE k \in bad : \A j \in bad : k <= j
         IN  IF i \in MissingSignNames
             THEN Err("BuildError", MissingHeaderMessage(i))
             ELSE Err("ToStrError", builder.headers[i])

NothingSigned ==
    /\ ~Returned
    /\ signing = None
    /\ instr = None
    /\ req.headers[AUTHORIZATION] = entry.headers[AUTHORIZATION]

\* C13: a sign-set header absent from the request makes sign return
\* BuildError naming the missing header; no signature is computed and no
\* authorization header is inserted.
C13_MissingHeaderBuildError ==
    (Called /\ MissingSignNames # {})
        => /\ NothingSigned
           /\ Failed => \E i \in MissingSignNames :
                           result = Err("BuildError", MissingHeaderMessage(i))

\* C13 (amended): a sign-set header absent from the request makes sign fail
\* without a signature and without an authorization header; the error is the
\* BuildError of an unset credentials, region or service when there is one,
\* else that of the first sign-set name, in order, whose lookup fails (the
\* header is absent, or the value sign reads for it is not text): BuildError
\* naming it when it is absent.
C13_MissingHeaderFails ==
    (Called /\ MissingSignNames # {})
        => /\ NothingSigned
           /\ Failed => result = SignSetError

\* two names of the sign-set fail, the absent one is read first
C13_Witness ==
    /\ Failed
    /\ UnwrapError(builder) = None
    /\ builder.headers = <<"host", "x-amz-date", "x-api-key", "content-type">>
    /\ MissingSignNames = {3}
    /\ NonTextSignNames = {4}
    /\ result = Err("BuildError",
                    "missing header x-api-key which is required for signing")

\* positions of the sign-set whose header has a value that is not text
NonTextValued ==
    {i \in DOMAIN builder.headers :
        /\ Lower(builder.headers[i]) # X_AMZ_DATE
        /\ \E k \in DOMAIN entry.headers[Lower(builder.headers[i])] :
              entry.headers[Lower(builder.headers[i])][k] \in NonTextValues}

\* C14: when a value of a header of the sign-set is not text, sign returns
\* ToStrError, with no signature and no authorization header (stated for a
\* builder with credentials, region and service and a request that has every
\* sign-set header); a non-text value outside the sign-set causes no
\* ToStrError.
C14_NonTextToStrError ==
    /\ (Called /\ UnwrapError(builder) = None /\ MissingSignNames = {}
               /\ NonTextValued # {})
          => /\ NothingSigned
             /\ Failed => result.kind = "ToStrError"
    /\ (Failed /\ NonTextValued = {}) => result.kind # "ToStrError"

\* the credential scope of a sign_request call that signed for service name
ScopeOf(c, name) ==
    DateStamp(c.time) \o "/" \o (IF c.region.some THEN c.region.val ELSE "")
      \o "/" \o name \o "/aws4_request"

\* C15: sign_request signs with service name execute-api when its service
\* argument is None and with the given name when it is Some(s); the name is
\* in the credential scope of the Authorization value.
C15_ServiceArgument ==
    \A i \in DOMAIN cli.signs :
        LET c == cli.signs[i]
            name == IF c.service.some THEN c.service.val ELSE "execute-api"
        IN  /\ c.scope = ScopeOf(c, name)
            /\ c.authorization =
                 << "AWS4-HMAC-SHA256 Credential=" \o c.creds.access_key_id
                      \o "/" \o c.scope
                      \o ", SignedHeaders=" \o Join(c.signed_headers, ";")
                      \o ", Signature=" \o c.signature >>

C15_Witness ==
    /\ Len(cli.signs) = 2
    /\ cli.signs[1].service = Some("s3")
    /\ cli.signs[2].service = None
    /\ cli.signs[2].scope = ScopeOf(cli.signs[2], "execute-api")

\* C16: with --sigv4 and --sigv4-service S on the command line the request is
\* signed with service name S, on the plain request path and on the template
\* run paths.
C16_FlagServiceSigned ==
    (/\ cli.pc \in {"signed", "done", "panic"}
     /\ cli.args[SIGV4] = Some(TRUE)
     /\ cli.args[SIGV4_SERVICE].some)
        => /\ cli.pc # "panic"
           /\ cli.signs # <<>>
           /\ LET c == cli.signs[Len(cli.signs)]
              IN  c.scope = ScopeOf(c, cli.args[SIGV4_SERVICE].val)

\* C17: on every path from building a request to executing it, whatever the
\* environment's sigv4 setting and the --sigv4 flag, sign is applied to the
\* request at most once.
C17_SignedAtMostOnce ==
    Len(cli.signs) <= 1

\* the names of the sign-set, as header names
SignSet == {Lower(builder.headers[i]) : i \in DOMAIN builder.headers}

\* sign of request r with the builder and the signing time of the call made
SignatureOf(r) ==
    SignOutcome(builder, r, signing.val.time, signing.val.time)

\* r differs from the signed request only in headers outside the sign-set
SameSigned(r) ==
    /\ r.method = entry.method /\ r.url = entry.url /\ r.body = entry.body
    /\ \A n \in SignSet : r.headers[n] = entry.headers[n]

\* requests that differ from the signed one only outside the sign-set
OutsideVariants ==
    {r \in Requests : SameSigned(r)}
      \cup {[entry EXCEPT !.headers[n] = v] :
              n \in HeaderNames \ SignSet, v \in {<<>>, <<"altered">>, <<"\\xff">>}}

\* requests that differ from the signed one in the method, the path, the
\* query, the body, or the value of a sign-set header sign reads
SignedVariants ==
    { [entry EXCEPT !.method = IF @ = "GET" THEN "POST" ELSE "GET"],
      [entry EXCEPT !.url.path = "/items/1"],
      [entry EXCEPT !.url.query = IF @ = <<>> THEN <<"a=1">> ELSE <<>>],
      [entry EXCEPT !.body = IF @ = None THEN Some("{}") ELSE None],
      [entry EXCEPT !.headers[HOST] = IF @ = <<"proxy.example.com">>
                                      THEN <<"other.example.com">>
                                      ELSE <<"proxy.example.com">>] }
      \cup {[entry EXCEPT !.headers[n] = <<"key-2">>] :
              n \in SignSet \ {HOST, X_AMZ_DATE}}

\* C19: requests that differ only in the value or presence of headers outside
\* the sign-set, signed with the same credentials, region, service, time and
\* sign-set, get the same Signature; a change of the method, the path, the
\* query, the body or the value of a sign-set header changes it.
C19_SignatureScope ==
    Returned
        => /\ \A r \in OutsideVariants :
                /\ SignatureOf(r).ok
                /\ SignatureOf(r).signing.signature = signing.val.signature
           /\ \A r \in SignedVariants :
                /\ SignatureOf(r).ok
                /\ SignatureOf(r).signing.signature # signing.val.signature

C19_Witness ==
    /\ Returned
    /\ "x-api-key" \in SignSet
    /\ entry.headers[AUTHORIZATION] # <<>>
    /\ entry.headers[X_AMZ_SECURITY_TOKEN] # <<>>
    /\ Cardinality(OutsideVariants) > 4

\* the names header() was called with, in call order
Pushed == SubSeq(builder.headers, Len(DefaultSignedHeaders) + 1, Len(builder.headers))

\* the sign-sets of the builders that got the same header() calls in any order
Reordered ==
    { DefaultSignedHeaders \o [i \in 1..Len(Pushed) |-> Pushed[f[i]]] :
        f \in Permutations(1..Len(Pushed)) }

\* C20: builders that received the same header() names in different orders,
\* all else equal, give the same SignedHeaders string and the same Signature
\* when they sign the same request.
C20_OrderIrrelevant ==
    Returned
        => \A q \in Reordered :
              LET o == SignOutcome([builder EXCEPT !.headers = q], entry,
                                   signing.val.time, signing.val.time)
              IN  /\ o.ok
                  /\ Join(o.signing.signed_headers, ";")
                       = Join(signing.val.signed_headers, ";")
                  /\ o.signing.signature = signing.val.signature

C20_Witness ==
    /\ Returned
    /\ Pushed = <<"x-api-key", "host">>
    /\ Cardinality(Reordered) = 2
    /\ Join(signing.val.signed_headers, ";")
         = "host;x-amz-content-sha256;x-amz-date;x-api-key"

\* what call c returns when it runs alone with its inputs and its clock reads
Alone(c) ==
    SignOutcome(par.input[c].val.builder, par.input[c].val.request,
                par.call[c].date, par.call[c].time)

\* C18: two sign calls whose steps interleave in any order each return the
\* request (all headers, authorization included) or the error that the call
\* returns when it runs alone with the same inputs; a call that has not
\* started has no state written by the other.
C18_ParallelIndependence ==
    \A c \in Calls :
        /\ par.input[c] = None => par.call[c] = CallIdle
        /\ par.call[c].pc = "done"
              => /\ Alone(c).ok
                 /\ par.call[c].req = Alone(c).req
                 /\ par.call[c].result = Ok
        /\ par.call[c].pc = "err"
              => /\ ~Alone(c).ok
                 /\ par.call[c].req = Alone(c).req
                 /\ par.call[c].result = Alone(c).result

\* call 1 has run its signing step and returned between the signing step of
\* call 2 and its last step
C18_Witness ==
    /\ par.call[1].pc = "done" /\ par.call[2].pc = "apply"
    /\ par.call[2].time < par.call[1].time
    /\ par.input[1].val.request # par.input[2].val.request
    /\ par.input[1].val.builder # par.input[2].val.builder
    /\ par.call[1].req = Alone(1).req

RECURSIVE SortedBy(_, _)
\* the elements of seq in the order of the ordered universe `order`
SortedBy(order, seq) ==
    IF order = <<>> THEN <<>>
    ELSE SelectSeq(seq, LAMBDA x : x = Head(order)) \o SortedBy(Tail(order), seq)

\* C21: the Display output of every SignedHeaders value reached from the
\* default by push is its names lowercased, sorted in byte order and joined
\* by ";".
C21_DisplaySorted ==
    Display(builder.headers)
        = Join(SortedBy(HeaderOrder,
                        [i \in 1..Len(builder.headers) |-> Lower(builder.headers[i])]),
               ";")

\* C22: for a sign-set header with several values in the request, the value
\* canonicalised into the signature is all the values joined with a comma in
\* request order.
C22_AllValuesSigned ==
    Returned
        => \A n \in SignSet \ {X_AMZ_DATE} :
              Join(signing.val.canonical_headers[n], ",") = Join(req.headers[n], ",")

\* the query parameters of the signed request in every order
QueryOrders ==
    { [i \in 1..Len(entry.url.query) |-> entry.url.query[f[i]]] :
        f \in Permutations(1..Len(entry.url.query)) }

\* C23: the canonical query string lists the URL's parameters sorted by key
\* then value, so requests whose URLs carry the same parameters in different
\* orders, all else equal, get the same Signature.
C23_QueryOrder ==
    Returned
        => /\ signing.val.canonical_query
                = Join(SortedBy(ParamOrder, entry.url.query), "&")
           /\ \A q \in QueryOrders :
                /\ SignatureOf([entry EXCEPT !.url.query = q]).ok
                /\ SignatureOf([entry EXCEPT !.url.query = q]).signing.signature
                     = signing.val.signature

C23_Witness ==
    /\ Returned
    /\ entry.url.query = <<"b=2", "a=1">>
    /\ signing.val.canonical_query = "a=1&b=2"
    /\ Cardinality(QueryOrders) = 2

\* what the body of the request puts on the wire
Payload(b) ==
    IF ~b.some THEN "" ELSE IF "val" \in DOMAIN b THEN b.val ELSE b.stream

\* C24: the payload segment of the canonical request is the hash of the
\* request's body bytes, the hash of the empty byte sequence for a request
\* with no body; a non-empty body never gets the empty-payload hash.
C24_PayloadHash ==
    Returned
        => /\ signing.val.payload_hash = Sha256Hex(Payload(entry.body))
           /\ ~entry.body.some => signing.val.payload_hash = Sha256Hex("")
           /\ Payload(entry.body) # "" => signing.val.payload_hash # Sha256Hex("")

\* nothing but the URL can make the call fail
OtherwiseSignable ==
    /\ UnwrapError(builder) = None
    /\ MissingSignNames = {} /\ NonTextSignNames = {}
    /\ ~(builder.credentials.val.session_token.some
         /\ builder.credentials.val.session_token.val \in InvalidHeaderStrings)

WithoutBody == [entry EXCEPT !.body = None]

\* C30: a request whose body is a stream is signed with the payload taken as
\* the empty byte sequence, like a request with no body; sign returns Ok
\* whenever it does for the request with no body, and leaves the body in place.
C30_StreamSignedAsEmpty ==
    (entry.body.some /\ AsBytes(entry.body) = None)
        => /\ Failed => ~SignOutcome(builder, WithoutBody, 0, 0).ok
           /\ Returned
                => /\ signing.val.payload_hash = Sha256Hex("")
                   /\ SignatureOf(WithoutBody).ok
                   /\ SignatureOf(WithoutBody).signing.signature = signing.val.signature
                   /\ req.body = entry.body

C30_Witness ==
    /\ Returned
    /\ entry.body = StreamBody("{}")
    /\ req.body = StreamBody("{}")
    /\ req.headers[X_AMZ_CONTENT_SHA_256] = <<Sha256Hex("")>>

\* sign was entered (sign_request returns before it when it has no credentials)
SignEntered == Called /\ (caller = "sign" \/ builder # NewBuilder)

\* C25: a builder whose credentials, region or service was never set makes
\* sign return BuildError with no header of the request inserted or changed
\* and no signing step run; the first unset one of credentials, region,
\* service, in that order, determines the error.
C25_UnsetFieldFirst ==
    (SignEntered /\ (~builder.credentials.some \/ ~builder.region.some \/ ~builder.service.some))
        => /\ Failed
           /\ result.kind = "BuildError"
           /\ result.msg =
                CASE ~builder.credentials.some
                       -> "aws credentials are required when creating sigv4 request"
                  [] builder.credentials.some /\ ~builder.region.some
                       -> "region is required when creating a sigv4 request"
                  [] OTHER -> "service is required when creating a sigv4 request"
           /\ req = entry
           /\ params = None /\ instr = None /\ signing = None

C25_Witness ==
    /\ Failed
    /\ builder.credentials.some /\ ~builder.region.some /\ ~builder.service.some
    /\ result = Err("BuildError", "region is required when creating a sigv4 request")
    /\ entry.headers[HOST] = <<>> /\ req.headers[HOST] = <<>>

\* signing is enabled by the environment / by the --sigv4 flag
EnvSigns == cli.env.kind = "Endpoint" /\ cli.env.sigv4 = Some(TRUE)
FlagSigns == cli.args[SIGV4] = Some(TRUE)

\* C26: a run whose signing failed never executes the request: client.execute
\* is reached only after every sign_request the run calls returned Ok, or
\* when signing is not enabled.
C26_NoExecuteAfterFailedSign ==
    /\ cli.pc \in {"error", "panic"} => cli.sent = None
    /\ cli.sent.some
          => Len(cli.signs) = (IF EnvSigns THEN 1 ELSE 0) + (IF FlagSigns THEN 1 ELSE 0)

C26_Witness ==
    /\ cli.pc = "error"
    /\ EnvSigns /\ FlagSigns
    /\ Len(cli.signs) = 1
    /\ cli.error = Some(Context(Err("SigningError", "invalid header value"),
                                "Could not sign request"))
    /\ cli.sent = None

\* C27: with signing enabled by the environment or by --sigv4, the request
\* handed to client.execute is the request the last sign returned, with the
\* authorization header that sign produced: nothing changes it in between.
C27_SentAsSigned ==
    (cli.sent.some /\ (EnvSigns \/ FlagSigns))
        => /\ cli.signs # <<>>
           /\ LET c == cli.signs[Len(cli.signs)]
              IN  /\ cli.sent.val = c.request
                  /\ cli.sent.val.headers[AUTHORIZATION] = c.authorization
                  /\ c.authorization =
                       << "AWS4-HMAC-SHA256 Credential=" \o c.creds.access_key_id
                            \o "/" \o c.scope
                            \o ", SignedHeaders=" \o Join(c.signed_headers, ";")
                            \o ", Signature=" \o c.signature >>

C27_Witness ==
    /\ cli.sent.some
    /\ EnvSigns /\ ~FlagSigns
    /\ Len(cli.signs) = 1
    /\ Len(cli.sent.val.headers[AUTHORIZATION]) = 1

\* C28: sign applied any number of times in sequence to the same request
\* never accumulates headers: after each successful sign the request has
\* exactly one value each for host, x-amz-date and authorization, and the
\* authorization value is the one of the latest sign.
C28_NoAccumulation ==
    Returned
        => /\ Len(req.headers[HOST]) = 1
           /\ Len(req.headers[X_AMZ_DATE]) = 1
           /\ Len(req.headers[AUTHORIZATION]) = 1
           /\ req.headers[AUTHORIZATION] = <<SignedAuthorization>>
           /\ req.headers[X_AMZ_DATE] = <<FormatDateTime(signing.val.time)>>

C28_Witness ==
    /\ Returned
    /\ round >= 3
    /\ Len(entry.headers[AUTHORIZATION]) = 1
    /\ entry.headers[X_AMZ_CONTENT_SHA_256] # <<>>
    /\ req.headers[AUTHORIZATION] # entry.headers[AUTHORIZATION]


====
